---- MODULE Spec2Model ----
\* A model of the elysia-discord webhook plugin (src/src/plugin/elysia-discord.ts)
\* and of its event router DiscordHelper (src/src/core/discord-helper.ts).
\*
\* Spec        the plugin: construction, the onRequest hook of every request
\*             and the derive stage, for requests handled concurrently by one
\*             plugin instance (they share the Elysia store).
\* SpecHelper  one DiscordHelper: on(), handle() and the settling of the
\*             callbacks handle() invoked.
\* SpecReply   one DiscordHelper: reply(), deferReply(), editReply() and
\*             followUp() called in any interleaving.
EXTENDS Integers, Sequences, FiniteSets, TLC

\* ------------------------------------------------------------------ bounds

\* Requests one plugin instance handles in a behaviour.
MaxRequests == 2

Requests == 1..MaxRequests

\* ------------------------------------------------------- values of the plugin

\* A value JSON.parse can hand back, or the SyntaxError it throws (kind "error").
\* type is the numeric `type` property of an object, 0 when there is none;
\* id tells two objects apart.
JValue(kind, num, type, id) ==
    [kind |-> kind, num |-> num, type |-> type, id |-> id]

SyntaxError == JValue("error", 0, 0, "-")

\* JavaScript null: what the store holds at first, and what JSON.parse("null") is.
Null == JValue("null", 0, 0, "-")

\* The store before the plugin (and with it the store) exists.
NoStore == JValue("nostore", 0, 0, "-")

\* The discriminant of the handshake payload.
PING == 1

\* The request bodies drawn in the model.
BodyTexts ==
    { "{bad", "null", "0", "7", "{type:1}", "{type:1,data:[]}",
      "{type:2,id:a}", "{type:3,id:b}" }

\* JSON.parse(body)
JSONparse(body) ==
    CASE body = "null"             -> Null
      [] body = "0"                -> JValue("number", 0, 0, "-")
      [] body = "7"                -> JValue("number", 7, 0, "-")
      [] body = "{type:1}"         -> JValue("object", 0, 1, "-")
      [] body = "{type:1,data:[]}" -> JValue("object", 0, 1, "x")
      [] body = "{type:2,id:a}"    -> JValue("object", 0, 2, "a")
      [] body = "{type:3,id:b}"    -> JValue("object", 0, 3, "b")
      [] OTHER                     -> SyntaxError

\* JavaScript truthiness of a parsed value (`!interaction` in derive).
Truthy(v) ==
    \/ v.kind = "object"
    \/ v.kind = "number" /\ v.num # 0

\* A header as request.headers.get returns it: null when absent.
HNull == "<null>"

HeaderVals == {HNull, "", "v"}

Methods == {"POST", "GET"}

\* What verifyKey does with (body, signature, timestamp, publicKey).
VerifyOutcomes == {"true", "false", "throws"}

\* An option as the caller passes it: undefined, "" or a value.
Undefined == "<undefined>"

OptionVals == {Undefined, "", "set"}

\* `!x` on a string option or header.
Falsy(x) == x \in {Undefined, HNull, ""}

\* ------------------------------------------------------------------- state

VARIABLES
    options,    \* the DiscordOptions the caller passes to discord()
    plugin,     \* "unbuilt", "built" (an Elysia instance was returned), "failed"
    cfgError,   \* the field of the ConfigurationError discord() threw, or "-"
    store,      \* store["discord-interaction"] of the plugin instance
    req,        \* the requests: position in the lifecycle, inputs read, effects
    interaction, \* DiscordHelper.interaction
    handlers,   \* DiscordHelper.handlers: category -> callbacks, in order
    promises,   \* handle(): what the invoked callbacks returned, and its state
    invoked,    \* handle(): the callbacks called so far, in order
    all,        \* handle(): the promise Promise.all(promises) returned
    result,     \* the promise handle() returned to its caller
    log,        \* the warn, success and error entries handle() logged
    response,   \* DiscordHelper.response
    replyCalls  \* the calls of reply, deferReply, editReply and followUp made

pluginVars == <<options, plugin, cfgError, store, req>>

replyVars == <<response, replyCalls>>

helperVars ==
    <<interaction, handlers, promises, invoked, all, result, log, replyVars>>

\* The context property `discord` of a request: not derived yet, undefined, or
\* a DiscordHelper holding `interaction`.
NoCtx == [is |-> "none", interaction |-> Null]

CtxUndefined == [is |-> "undefined", interaction |-> Null]

CtxHelper(held) == [is |-> "helper", interaction |-> held]

\* A request that has not arrived.
NewRequest ==
    [ pc |-> "idle", method |-> "-", sig |-> "-", ts |-> "-", body |-> "-",
      verdict |-> "-", status |-> 0, reply |-> "-",
      textCalled |-> FALSE, verifyCalled |-> FALSE, parsed |-> FALSE,
      stored |-> FALSE, discord |-> NoCtx, helpers |-> 0 ]

\* ------------------------------------------------------------ construction

\* A faulty variant of the option checks: applicationId is tested before
\* botToken.
ValidateOptionsReordered(o) ==
    IF Falsy(o.publicKey) THEN "publicKey"
    ELSE IF Falsy(o.applicationId) THEN "applicationId"
    ELSE IF Falsy(o.botToken) THEN "botToken"
    ELSE "-"

\* The option checks of discord(): the field of the ConfigurationError thrown,
\* or "-" when all three are there.
ValidateOptions(o) ==
    IF Falsy(o.publicKey) THEN "publicKey"
    ELSE IF Falsy(o.botToken) THEN "botToken"
    ELSE IF Falsy(o.applicationId) THEN "applicationId"
    ELSE "-"

\* discord(options): throws, or returns the Elysia instance with its two states
\* and its hooks.
discord ==
    /\ plugin = "unbuilt"
    /\ LET field == ValidateOptions(options) IN
       /\ cfgError' = field
       /\ plugin' = IF field = "-" THEN "built" ELSE "failed"
       /\ store' = IF field = "-" THEN Null ELSE store
    /\ UNCHANGED <<options, req, helperVars>>

\* ------------------------------------------------------------- the hook

\* A faulty variant of the header check: the timestamp is not tested.
MissingHeadersSignatureOnly(signature, timestamp) ==
    Falsy(signature)

\* The header check: TRUE when the hook answers 401.
MissingHeaders(signature, timestamp) ==
    Falsy(signature) \/ Falsy(timestamp)

\* An early answer of the hook: set.status and the returned body.
Respond(r, status, reply) ==
    [r EXCEPT !.pc = "responded", !.status = status, !.reply = reply]

\* onRequest up to its first await: the method check, the two headers, the
\* header check, and the call of request.text().
OnRequestEntry(r, method, signature, timestamp) ==
    IF method # "POST" THEN [r EXCEPT !.pc = "derive", !.method = method]
    ELSE LET h == [r EXCEPT !.method = method, !.sig = signature,
                            !.ts = timestamp] IN
         IF MissingHeaders(signature, timestamp)
         THEN Respond(h, 401, "Missing signature headers")
         ELSE [h EXCEPT !.pc = "text", !.textCalled = TRUE]

onRequest(i) ==
    /\ plugin = "built"
    /\ req[i].pc = "idle"
    \* requests are numbered in the order they arrive
    /\ \A j \in Requests : j < i => req[j].pc # "idle"
    /\ \/ \E method \in Methods \ {"POST"} :
            req' = [req EXCEPT ![i] = OnRequestEntry(req[i], method, "-", "-")]
       \/ \E signature \in HeaderVals, timestamp \in HeaderVals :
            req' = [req EXCEPT ![i] =
                      OnRequestEntry(req[i], "POST", signature, timestamp)]
    /\ UNCHANGED <<options, plugin, cfgError, store, helperVars>>

\* A faulty variant of OnRequestText: the catch does not return, and the hook
\* goes on to the verifier with no body.
OnRequestTextNoReturn(r, ok, body) ==
    [r EXCEPT !.pc = "verify", !.body = body, !.verifyCalled = TRUE]

\* request.text() settled: the catch answers 400, otherwise the body is kept
\* and verifyDiscordSignature is called.
OnRequestText(r, ok, body) ==
    IF ~ok THEN Respond(r, 400, "Failed to read request body")
    ELSE [r EXCEPT !.pc = "verify", !.body = body, !.verifyCalled = TRUE]

onRequestText(i) ==
    /\ req[i].pc = "text"
    /\ \/ req' = [req EXCEPT ![i] = OnRequestText(req[i], FALSE, "-")]
       \/ \E body \in BodyTexts :
            req' = [req EXCEPT ![i] = OnRequestText(req[i], TRUE, body)]
    /\ UNCHANGED <<options, plugin, cfgError, store, helperVars>>

\* A faulty variant of verifyDiscordSignature: the catch returns true.
verifyDiscordSignatureCatchTrue(outcome) ==
    [raised |-> FALSE, value |-> (outcome # "false")]

\* A faulty variant of verifyDiscordSignature: no try/catch around verifyKey.
verifyDiscordSignatureNoCatch(outcome) ==
    [raised |-> (outcome = "throws"), value |-> (outcome = "true")]

\* verifyDiscordSignature: verifyKey's answer, false when it throws.
\* raised: an exception leaves the function.
verifyDiscordSignature(outcome) ==
    [raised |-> FALSE, value |-> (outcome = "true")]

\* `interaction.type` of a parsed value: throws on null, undefined (0) on a
\* primitive.
TypeOfThrows(v) == v.kind = "null"

\* A faulty variant of the parse: the PING branch does not return.
ParseOutcomeNoPing(body) ==
    LET payload == JSONparse(body) IN
    IF payload = SyntaxError THEN "invalid"
    ELSE IF payload.kind = "null" THEN "invalid"
    ELSE "store"

\* The try block of the parse: "invalid" (the catch), "ping" or "store".
ParseOutcome(body) ==
    LET payload == JSONparse(body) IN
    IF payload = SyntaxError THEN "invalid"
    ELSE IF TypeOfThrows(payload) THEN "invalid"
    ELSE IF payload.type = PING THEN "ping"
    ELSE "store"

\* The hook from the verifier's answer to its end: the signature check, the
\* parse, the PING answer, the store write.
OnRequestVerified(r, outcome) ==
    LET v == verifyDiscordSignature(outcome)
        d == [r EXCEPT !.verdict = outcome]
    IN
    IF v.raised THEN [d EXCEPT !.pc = "raised"]
    ELSE IF ~v.value THEN Respond(d, 401, "Invalid signature")
    ELSE LET p == [d EXCEPT !.parsed = TRUE]
             o == ParseOutcome(r.body)
         IN
         IF o = "invalid" THEN Respond(p, 400, "Invalid JSON body")
         ELSE IF o = "ping" THEN Respond(p, 200, "{type:1}")
         ELSE [p EXCEPT !.pc = "derive", !.stored = TRUE]

\* A faulty variant of StoreWrite: a request that ends early clears the store.
StoreWriteOrClear(r, body, before) ==
    IF r.stored THEN JSONparse(body) ELSE Null

\* store["discord-interaction"] when the hook of r ended: the parsed payload
\* if the hook reached the write, otherwise what it was.
StoreWrite(r, body, before) ==
    IF r.stored THEN JSONparse(body) ELSE before

onRequestVerified(i) ==
    /\ req[i].pc = "verify"
    /\ \E outcome \in VerifyOutcomes :
         LET r == OnRequestVerified(req[i], outcome) IN
         /\ req' = [req EXCEPT ![i] = r]
         /\ store' = StoreWrite(r, req[i].body, store)
    /\ UNCHANGED <<options, plugin, cfgError, helperVars>>

\* ------------------------------------------------------------- derive

\* derive: the context property `discord`, from the store. It runs for a
\* request the hook passed on (a value the hook returns is the response and
\* ends the request). onRequest is an async function the framework awaits, so
\* segments of other requests' hooks can run between the end of this request's
\* hook and its derive.
Derive(stored) ==
    IF ~Truthy(stored) THEN CtxUndefined ELSE CtxHelper(stored)

derive(i) ==
    /\ req[i].pc = "derive"
    /\ LET d == Derive(store) IN
       req' = [req EXCEPT ![i].pc = "handler", ![i].discord = d,
                          ![i].helpers = IF d.is = "helper" THEN @ + 1 ELSE @]
    /\ UNCHANGED <<options, plugin, cfgError, store, helperVars>>

\* The route handler of the request returns and the request is over: the
\* plugin registers no hook after the handler, and the store stays.
routeHandler(i) ==
    /\ req[i].pc = "handler"
    /\ req' = [req EXCEPT ![i].pc = "done"]
    /\ UNCHANGED <<options, plugin, cfgError, store, helperVars>>

\* ------------------------------------------------------ values of the helper

\* Callbacks registered with one helper in a behaviour.
MaxHandlers == 2

\* keyof InteractionEventMap
Categories == {"*", "command", "button", "select", "modal", "autocomplete"}

\* What a registered callback does when called: an async function whose
\* promise resolves or rejects later, a plain function that returns or throws,
\* "replies": an async function that awaits this.reply(interaction, "Pong!").
Kinds == {"resolves", "rejects", "returns", "throws", "replies"}

\* The interaction a helper holds. class "Interaction": a discord.js Interaction
\* of the given shape. class "Object": the plain value JSON.parse returned,
\* which is what derive passes to the constructor; it has the shape of its
\* payload and none of Interaction's methods. class "null": none.
Shapes ==
    { "ChatInputCommand", "ContextMenuCommand", "Button", "StringSelectMenu",
      "UserSelectMenu", "RoleSelectMenu", "ChannelSelectMenu", "ModalSubmit",
      "Autocomplete" }

\* The payload shapes drawn for plain parsed values.
RawShapes == {"ChatInputCommand", "Button"}

Interaction(shape) == [class |-> "Interaction", shape |-> shape]

Raw(shape) == [class |-> "Object", shape |-> shape]

NoInteraction == [class |-> "null", shape |-> "-"]

HeldInteractions ==
    {Interaction(s) : s \in Shapes} \cup {Raw(s) : s \in RawShapes}
    \cup {NoInteraction}

\* The type guards handle() calls on the held interaction.
isChatInputCommand(x) == x.shape = "ChatInputCommand"

isButton(x) == x.shape = "Button"

isSelectMenu(x) ==
    x.shape \in {"StringSelectMenu", "UserSelectMenu", "RoleSelectMenu",
                 "ChannelSelectMenu"}

isModalSubmit(x) == x.shape = "ModalSubmit"

isAutocomplete(x) == x.shape = "Autocomplete"

\* Calling a type guard on the held value throws a TypeError: it is a plain
\* parsed value, not a discord.js Interaction.
GuardThrows(x) == x.class = "Object"

\* handlerKey of handle(): the category of the held interaction, "-" for null.
HandlerKey(x) ==
    IF isChatInputCommand(x) THEN "command"
    ELSE IF isButton(x) THEN "button"
    ELSE IF isSelectMenu(x) THEN "select"
    ELSE IF isModalSubmit(x) THEN "modal"
    ELSE IF isAutocomplete(x) THEN "autocomplete"
    ELSE "-"

\* The reason a promise was rejected with: the error callback idx of category
\* key threw or rejected with, or the TypeError of a missing type guard.
NoError == [of |-> "-", key |-> "-", idx |-> 0]

CallbackError(key, idx) == [of |-> "callback", key |-> key, idx |-> idx]

TypeError == [of |-> "TypeError", key |-> "-", idx |-> 0]

\* ------------------------------------------- values of the reply family

\* Calls of the reply family made directly on one helper in a behaviour.
MaxCalls == 2

Ops == {"reply", "deferReply", "editReply", "followUp"}

\* The message of reply, editReply and followUp, the options of deferReply.
Messages == {"Pong!", "Hello"}

DeferOptions == {Undefined, "{ephemeral:true}"}

OpData(op) ==
    CASE op = "reply"      -> Messages
      [] op = "deferReply" -> DeferOptions
      [] OTHER             -> {"Pong!"}

\* The interactions passed to the reply family: repliable ones, one that is
\* not, and a plain parsed value.
ReplyTargets ==
    { Interaction("ChatInputCommand"), Interaction("Button"),
      Interaction("Autocomplete"), Raw("ChatInputCommand") }

\* The messages of the errors the platform call fails with.
PlatformErrors ==
    {"Unknown interaction", "Interaction has already been acknowledged"}

PlatformOutcomes == {"ok"} \cup PlatformErrors

\* A faulty variant of isRepliable: every interaction can be replied to.
isRepliableAlways(x) == TRUE

\* interaction.isRepliable() of discord.js: every interaction but autocomplete
\* (and ping, which no helper is built for).
isRepliable(x) == x.shape # "Autocomplete"

\* interaction.id: each interaction drawn is the one of its shape.
InteractionId(x) == x.shape

\* InteractionType[interaction.type]
InteractionTypeName(x) ==
    CASE x.shape \in {"ChatInputCommand", "ContextMenuCommand"}
                                  -> "ApplicationCommand"
      [] x.shape = "ModalSubmit"  -> "ModalSubmit"
      [] x.shape = "Autocomplete" -> "ApplicationCommandAutocomplete"
      [] OTHER                    -> "MessageComponent"

\* DiscordHelper.response: null, or { type, data }.
NoResponse == [type |-> 0, data |-> "-"]

InteractionResponse(type, data) == [type |-> type, data |-> data]

ChannelMessageWithSource == 4

DeferredChannelMessageWithSource == 5

\* The errors the reply family raises. message is the text around `cause`.
NoReplyError ==
    [ name |-> "-", interactionId |-> Undefined, interactionType |-> Undefined,
      message |-> [text |-> "-", cause |-> "-"] ]

ReplyTypeError ==
    [ name |-> "TypeError", interactionId |-> Undefined,
      interactionType |-> Undefined,
      message |-> [text |-> "interaction.isRepliable is not a function",
                   cause |-> "-"] ]

DiscordInteractionError(message, interactionId, interactionType) ==
    [ name |-> "DiscordInteractionError", interactionId |-> interactionId,
      interactionType |-> interactionType, message |-> message ]

InteractionNotRepliableError(interactionType) ==
    [ DiscordInteractionError(
          [text |-> "Interaction of type is not repliable",
           cause |-> interactionType],
          Undefined, interactionType)
      EXCEPT !.name = "InteractionNotRepliableError" ]

\* The text each method puts before the underlying error's message.
FailureText(op) ==
    CASE op = "reply"      -> "Failed to send reply: "
      [] op = "deferReply" -> "Failed to defer reply: "
      [] op = "editReply"  -> "Failed to edit reply: "
      [] OTHER             -> "Failed to send follow-up: "

\* One call of the reply family up to `await interaction.<op>(...)`: rejected
\* by the guard, or in flight with the platform call made (sent). promise is
\* the promise of the callback that made the call, 0 for a direct call; caught
\* is the message of the error the catch block caught, error what was raised.
ReplyEntry(op, x, message, promise) ==
    LET c == [ op |-> op, target |-> x, message |-> message,
               promise |-> promise, state |-> "inflight", sent |-> TRUE,
               caught |-> "-", error |-> NoReplyError ]
    IN IF GuardThrows(x)
       THEN [c EXCEPT !.state = "rejected", !.sent = FALSE,
                      !.error = ReplyTypeError]
       ELSE IF ~isRepliable(x)
       THEN [c EXCEPT !.state = "rejected", !.sent = FALSE,
                      !.error = InteractionNotRepliableError(
                                    InteractionTypeName(x))]
       ELSE c

\* A faulty variant of ReplyComplete: the platform's error is passed on as
\* it came.
ReplyCompleteRethrow(c, outcome) ==
    IF outcome = "ok" THEN [c EXCEPT !.state = "fulfilled"]
    ELSE [c EXCEPT !.state = "rejected", !.caught = outcome,
                   !.error = [NoReplyError EXCEPT
                                 !.name = "Error",
                                 !.message = [text |-> "", cause |-> outcome]]]

\* The call after its platform call settled with outcome.
ReplyComplete(c, outcome) ==
    IF outcome = "ok" THEN [c EXCEPT !.state = "fulfilled"]
    ELSE [c EXCEPT !.state = "rejected", !.caught = outcome,
                   !.error = DiscordInteractionError(
                                 [text |-> FailureText(c.op), cause |-> outcome],
                                 InteractionId(c.target),
                                 InteractionTypeName(c.target))]

\* A faulty variant of ResponseAfter: every method of the family records what
\* it sent.
ResponseAfterAnyOp(c, outcome, before) ==
    IF outcome = "ok"
    THEN InteractionResponse(ChannelMessageWithSource, c.message)
    ELSE before

\* A faulty variant of ResponseAfter: the first acknowledgment recorded stays.
ResponseAfterKeepFirst(c, outcome, before) ==
    IF before # NoResponse THEN before
    ELSE IF outcome = "ok" /\ c.op = "reply"
    THEN InteractionResponse(ChannelMessageWithSource, c.message)
    ELSE IF outcome = "ok" /\ c.op = "deferReply"
    THEN InteractionResponse(DeferredChannelMessageWithSource, c.message)
    ELSE before

\* this.response after the platform call of c settled with outcome.
ResponseAfter(c, outcome, before) ==
    IF outcome = "ok" /\ c.op = "reply"
    THEN InteractionResponse(ChannelMessageWithSource, c.message)
    ELSE IF outcome = "ok" /\ c.op = "deferReply"
    THEN InteractionResponse(DeferredChannelMessageWithSource, c.message)
    ELSE before

\* The calls of reply the "replies" callbacks among the promises ps made when
\* handle() invoked them with the held interaction.
CallbackReplies(held, ps) ==
    SelectSeq([k \in 1..Len(ps) |-> ReplyEntry("reply", held, "Pong!", k)],
              LAMBDA c : ps[c.promise].kind = "replies")

\* ------------------------------------------------------------ on()

\* on(interactionType, handler): appends handler to the category's list.
On(registry, key, handler) ==
    [registry EXCEPT ![key] = Append(@, handler)]

Registered(registry) ==
    LET RECURSIVE Sum(_)
        Sum(S) == IF S = {} THEN 0
                  ELSE LET k == CHOOSE k \in S : TRUE
                       IN Len(registry[k]) + Sum(S \ {k})
    IN Sum(Categories)

\* The callbacks are registered before the one dispatch of the request.
on(key, handler) ==
    /\ result.state = "idle"
    /\ Registered(handlers) < MaxHandlers
    /\ handlers' = On(handlers, key, handler)
    /\ UNCHANGED <<pluginVars, interaction, promises, invoked, all, result, log,
                   replyVars>>

\* ------------------------------------------------------------ handle()

\* A faulty variant of FirstThrow: what a callback throws is swallowed, and
\* the loop goes on.
FirstThrowSwallowed(hs) == 0

\* One loop of handle() over the callbacks hs of category key: the callbacks
\* called, in order, up to and with the first that throws; what the others
\* returned; whether one threw.
FirstThrow(hs) ==
    IF \E k \in 1..Len(hs) : hs[k] = "throws"
    THEN CHOOSE k \in 1..Len(hs) :
           /\ hs[k] = "throws"
           /\ \A j \in 1..(k - 1) : hs[j] # "throws"
    ELSE 0

InvokeLoop(key, hs) ==
    LET t == FirstThrow(hs)
        called == IF t = 0 THEN Len(hs) ELSE t
        pushed == IF t = 0 THEN Len(hs) ELSE t - 1
    IN [ calls |-> [k \in 1..called |-> <<key, k>>],
         pushed |-> [k \in 1..pushed |->
                       [ key |-> key, idx |-> k,
                         state |-> IF hs[k] = "returns" THEN "void"
                                   ELSE "pending",
                         kind |-> hs[k], at |-> 0 ]],
         threw |-> t # 0,
         error |-> CallbackError(key, t) ]

\* A faulty variant of Promise.all: fulfilled once any element is (Promise.any).
PromiseAny(ps, before) ==
    IF before.state # "pending" THEN before
    ELSE IF ps = <<>> \/ \E k \in 1..Len(ps) : ps[k].state \in {"void", "fulfilled"}
    THEN [state |-> "fulfilled", reason |-> NoError]
    ELSE before

\* Promise.all over what the callbacks returned: fulfilled once every element
\* is a plain value or a fulfilled promise, rejected with the first rejection.
PromiseAll(ps, before) ==
    IF before.state # "pending" THEN before
    ELSE IF \A k \in 1..Len(ps) : ps[k].state \in {"void", "fulfilled"}
    THEN [state |-> "fulfilled", reason |-> NoError]
    ELSE before

\* handle() up to `await Promise.all(promises)`, as a record of what it leaves:
\* the promises pushed, the callbacks called, the count totalHandlers, and
\* "returned" (no interaction), "threw" (with the error) or "awaiting".
Handle(held, registry) ==
    IF held = NoInteraction
    THEN [ promises |-> <<>>, invoked |-> <<>>, totalHandlers |-> 0,
           outcome |-> "returned", error |-> NoError ]
    ELSE
    LET w == InvokeLoop("*", registry["*"])
        key == HandlerKey(held)
        c == IF key = "-" THEN InvokeLoop("*", <<>>)
             ELSE InvokeLoop(key, registry[key])
    IN
    IF w.threw
    THEN [ promises |-> w.pushed, invoked |-> w.calls,
           totalHandlers |-> Len(registry["*"]),
           outcome |-> "threw", error |-> w.error ]
    ELSE IF GuardThrows(held)
    THEN [ promises |-> w.pushed, invoked |-> w.calls,
           totalHandlers |-> Len(registry["*"]),
           outcome |-> "threw", error |-> TypeError ]
    ELSE IF c.threw
    THEN [ promises |-> w.pushed \o c.pushed, invoked |-> w.calls \o c.calls,
           totalHandlers |-> Len(registry["*"]) + Len(registry[key]),
           outcome |-> "threw", error |-> c.error ]
    ELSE [ promises |-> w.pushed \o c.pushed, invoked |-> w.calls \o c.calls,
           totalHandlers |-> Len(registry["*"])
                             + (IF key = "-" THEN 0 ELSE Len(registry[key])),
           outcome |-> "awaiting", error |-> NoError ]

LogEntry(level, message, total) ==
    [level |-> level, message |-> message, totalHandlers |-> total]

handle ==
    /\ result.state = "idle"
    /\ LET h == Handle(interaction, handlers) IN
       /\ promises' = h.promises
       /\ invoked' = h.invoked
       /\ all' = IF h.outcome = "awaiting"
                 THEN PromiseAll(h.promises,
                                 [state |-> "pending", reason |-> NoError])
                 ELSE all
       /\ result' = CASE h.outcome = "returned" ->
                           [state |-> "resolved", reason |-> NoError,
                            totalHandlers |-> 0]
                      [] h.outcome = "threw" ->
                           [state |-> "rejected", reason |-> h.error,
                            totalHandlers |-> h.totalHandlers]
                      [] OTHER ->
                           [state |-> "awaiting", reason |-> NoError,
                            totalHandlers |-> h.totalHandlers]
       /\ log' = IF h.outcome = "returned"
                 THEN Append(log, LogEntry("warn", "No interaction to handle", 0))
                 ELSE log
       /\ replyCalls' = replyCalls \o CallbackReplies(interaction, h.promises)
    /\ UNCHANGED <<pluginVars, interaction, handlers, response>>

\* The call of reply the callback of promise k made.
ReplyOf(k) ==
    replyCalls[CHOOSE c \in 1..Len(replyCalls) : replyCalls[c].promise = k]

\* The promise an async callback returned settles: a "replies" callback
\* rejects with what its call of reply rejected with. at numbers the promises
\* in the order they settled.
Settle(ps, k) ==
    [ps EXCEPT ![k].state = IF \/ ps[k].kind = "rejects"
                               \/ /\ ps[k].kind = "replies"
                                  /\ ReplyOf(k).state = "rejected"
                            THEN "rejected"
                            ELSE "fulfilled",
               ![k].at = 1 + Cardinality({j \in 1..Len(ps) : ps[j].at > 0})]

\* Promise.all's reaction to element k settling.
PromiseAllReact(ps, k, before) ==
    IF before.state # "pending" THEN before
    ELSE IF ps[k].state = "rejected"
    THEN [state |-> "rejected", reason |-> CallbackError(ps[k].key, ps[k].idx)]
    ELSE PromiseAll(ps, before)

settle(k) ==
    /\ k \in 1..Len(promises)
    /\ promises[k].state = "pending"
    /\ promises[k].kind = "replies" => ReplyOf(k).state # "inflight"
    /\ promises' = Settle(promises, k)
    /\ all' = PromiseAllReact(promises', k, all)
    /\ UNCHANGED <<pluginVars, interaction, handlers, invoked, result, log,
                   replyVars>>

\* handle() after `await Promise.all(promises)`: the success entry and a
\* normal return, or the error entry and the rethrow.
HandleResume(awaited, before) ==
    IF awaited.state = "fulfilled"
    THEN [ result |-> [before EXCEPT !.state = "resolved"],
           entry |-> LogEntry("success", "All handlers completed successfully",
                              before.totalHandlers) ]
    ELSE [ result |-> [before EXCEPT !.state = "rejected",
                                     !.reason = awaited.reason],
           entry |-> LogEntry("error", "Handler execution failed", 0) ]

handleResume ==
    /\ result.state = "awaiting"
    /\ all.state # "pending"
    /\ LET h == HandleResume(all, result) IN
       /\ result' = h.result
       /\ log' = Append(log, h.entry)
    /\ UNCHANGED <<pluginVars, interaction, handlers, promises, invoked, all,
                   replyVars>>

\* ------------------------------------------- reply, deferReply, editReply,
\* ------------------------------------------- followUp

\* A direct call of one method of the family, up to its await.
ReplyCall(op, x, message) ==
    /\ Len(replyCalls) < MaxCalls
    /\ replyCalls' = Append(replyCalls, ReplyEntry(op, x, message, 0))
    /\ UNCHANGED <<pluginVars, interaction, handlers, promises, invoked, all,
                   result, log, response>>

reply(x, message) == ReplyCall("reply", x, message)

deferReply(x, opts) == ReplyCall("deferReply", x, opts)

editReply(x, message) == ReplyCall("editReply", x, message)

followUp(x, message) == ReplyCall("followUp", x, message)

\* The platform call of call c settles, and the method runs to its end: the
\* assignment to this.response, or the catch block.
replyResume(c, outcome) ==
    /\ c \in 1..Len(replyCalls)
    /\ replyCalls[c].state = "inflight"
    /\ replyCalls' = [replyCalls EXCEPT ![c] = ReplyComplete(@, outcome)]
    /\ response' = ResponseAfter(replyCalls[c], outcome, response)
    /\ UNCHANGED <<pluginVars, interaction, handlers, promises, invoked, all,
                   result, log>>

\* ---------------------------------------------------------- specification

\* No helper in use: the helper's state while the plugin is observed.
HelperIdle ==
    /\ interaction = NoInteraction
    /\ handlers = [c \in Categories |-> <<>>]
    /\ promises = <<>>
    /\ invoked = <<>>
    /\ all = [state |-> "none", reason |-> NoError]
    /\ result = [state |-> "idle", reason |-> NoError, totalHandlers |-> 0]
    /\ log = <<>>
    /\ response = NoResponse
    /\ replyCalls = <<>>

Init ==
    /\ options \in [publicKey : OptionVals, botToken : OptionVals,
                    applicationId : OptionVals]
    /\ plugin = "unbuilt"
    /\ cfgError = "-"
    /\ store = NoStore
    /\ req = [i \in Requests |-> NewRequest]
    /\ HelperIdle

Next ==
    \/ discord
    \/ \E i \in Requests : onRequest(i)
    \/ \E i \in Requests : onRequestText(i)
    \/ \E i \in Requests : onRequestVerified(i)
    \/ \E i \in Requests : derive(i)
    \/ \E i \in Requests : routeHandler(i)

vars == <<pluginVars, helperVars>>

Spec == Init /\ [][Next]_vars

\* A helper just constructed, around any interaction; the plugin that built it
\* is left alone.
InitHelper ==
    /\ options = [publicKey |-> "set", botToken |-> "set",
                  applicationId |-> "set"]
    /\ plugin = "built"
    /\ cfgError = "-"
    /\ store = Null
    /\ req = [i \in Requests |-> NewRequest]
    /\ interaction \in HeldInteractions
    /\ handlers = [c \in Categories |-> <<>>]
    /\ promises = <<>>
    /\ invoked = <<>>
    /\ all = [state |-> "none", reason |-> NoError]
    /\ result = [state |-> "idle", reason |-> NoError, totalHandlers |-> 0]
    /\ log = <<>>
    /\ response = NoResponse
    /\ replyCalls = <<>>

NextHelper ==
    \/ \E key \in Categories, handler \in Kinds : on(key, handler)
    \/ handle
    \/ \E k \in 1..MaxHandlers : settle(k)
    \/ handleResume
    \/ \E c \in 1..MaxHandlers, outcome \in PlatformOutcomes :
          replyResume(c, outcome)

SpecHelper == InitHelper /\ [][NextHelper]_vars

\* One helper, built by hand around a discord.js interaction or by the plugin
\* around a parsed payload, whose reply family is called directly, in any
\* interleaving with the settling of the platform calls.
InitReply ==
    /\ InitHelper
    /\ interaction \in {Interaction("ChatInputCommand"), Raw("ChatInputCommand")}

NextReply ==
    \/ \E x \in ReplyTargets, m \in OpData("reply") : reply(x, m)
    \/ \E x \in ReplyTargets, o \in OpData("deferReply") : deferReply(x, o)
    \/ \E x \in ReplyTargets, m \in OpData("editReply") : editReply(x, m)
    \/ \E x \in ReplyTargets, m \in OpData("followUp") : followUp(x, m)
    \/ \E c \in 1..MaxCalls, outcome \in PlatformOutcomes :
          replyResume(c, outcome)

SpecReply == InitReply /\ [][NextReply]_vars


\* ------------------------------------------------------------------ claims

\* The hook of request r is over: it answered, or it passed the request on.
HookOver(r) == r.pc \in {"responded", "derive", "handler", "done"}

\* Request r reached its route handler.
AtHandler(r) == r.pc \in {"handler", "done"}

\* The headers of POST request r were read and one is null or empty.
HeaderMissing(r) ==
    /\ r.method = "POST"
    /\ r.sig \in {HNull, ""} \/ r.ts \in {HNull, ""}

\* C1: a non-POST request, and a POST request the hook answered itself, hand
\* no DiscordHelper to the downstream handler, whatever requests came before.
\* The code breaks this: the store is one per plugin instance, so a GET after
\* an accepted POST derives a helper around that POST's interaction.
C1_NoHelperWithoutInteraction ==
    \A i \in Requests :
       \/ AtHandler(req[i]) /\ req[i].method # "POST"
       \/ req[i].pc = "responded"
       => req[i].discord.is # "helper"

\* C2: the helper handed to the handler of an accepted POST holds the
\* interaction parsed from that request's own body. The code breaks this when
\* another request writes the shared store between this request's write and
\* its derive.
C2_HelperHoldsOwnInteraction ==
    \A i \in Requests :
       /\ AtHandler(req[i])
       /\ req[i].method = "POST"
       /\ req[i].discord.is = "helper"
       => req[i].discord.interaction = JSONparse(req[i].body)

\* C3: every POST with both headers, a verified body and a parsed payload whose
\* discriminant is not the handshake's gets exactly one helper, around that
\* payload, objects or not. The code breaks this for a falsy payload (0) and
\* when another request overwrites the store before derive.
C3_OneHelperAroundPayload ==
    \A i \in Requests :
       /\ AtHandler(req[i])
       /\ req[i].method = "POST"
       /\ req[i].verdict = "true"
       => /\ req[i].helpers = 1
          /\ req[i].discord = CtxHelper(JSONparse(req[i].body))

\* C4: a POST with the signature or the timestamp header missing or empty is
\* answered 401 "Missing signature headers"; request.text() and the verifier
\* are not called, the store is not written, no helper is constructed.
C4_MissingHeaders ==
    \A i \in Requests :
       HeaderMissing(req[i])
       => /\ req[i].pc = "responded"
          /\ req[i].status = 401
          /\ req[i].reply = "Missing signature headers"
          /\ ~req[i].textCalled
          /\ ~req[i].verifyCalled
          /\ ~req[i].stored
          /\ req[i].discord = NoCtx
          /\ req[i].helpers = 0

\* C4 happens: a POST with an empty timestamp was answered while the store held
\* an earlier request's interaction.
C4_Witness ==
    \E i \in Requests :
       /\ req[i].method = "POST"
       /\ req[i].sig = "v"
       /\ req[i].ts = ""
       /\ req[i].pc = "responded"
       /\ store.kind = "object"

\* C5: a POST whose body the verifier rejects, by returning false or by
\* throwing, is answered 401 "Invalid signature" whatever the body is; the
\* body is not parsed and the store is not written.
C5_InvalidSignature ==
    \A i \in Requests :
       req[i].verdict \in {"false", "throws"}
       => /\ req[i].pc = "responded"
          /\ req[i].status = 401
          /\ req[i].reply = "Invalid signature"
          /\ ~req[i].parsed
          /\ ~req[i].stored
          /\ req[i].helpers = 0

\* C5 happens: the verifier threw on a handshake body, and returned false on
\* an ordinary interaction.
C5_Witness ==
    /\ \E i \in Requests :
          req[i].verdict = "throws" /\ req[i].body = "{type:1}"
    /\ \E i \in Requests :
          req[i].verdict = "false" /\ req[i].body = "{type:2,id:a}"

\* C6: a verified payload of type 1 is answered 200 {type:1} whatever else it
\* holds; it is never stored and no helper is constructed for the request.
C6_Handshake ==
    /\ store.type # PING
    /\ \A i \in Requests :
          /\ req[i].verdict = "true"
          /\ req[i].body \in {"{type:1}", "{type:1,data:[]}"}
          => /\ req[i].pc = "responded"
             /\ req[i].status = 200
             /\ req[i].reply = "{type:1}"
             /\ ~req[i].stored
             /\ req[i].discord = NoCtx
             /\ req[i].helpers = 0

\* C6 happens: a verified handshake with other fields was answered while the
\* store held an earlier request's interaction.
C6_Witness ==
    \E i \in Requests :
       /\ req[i].verdict = "true"
       /\ req[i].body = "{type:1,data:[]}"
       /\ req[i].status = 200
       /\ store.kind = "object"

\* The six ways the hook of a POST request ends: status, body, store written.
HookOutcomes ==
    { <<401, "Missing signature headers", FALSE>>,
      <<400, "Failed to read request body", FALSE>>,
      <<401, "Invalid signature", FALSE>>,
      <<400, "Invalid JSON body", FALSE>>,
      <<200, "{type:1}", FALSE>>,
      <<0, "-", TRUE>> }

\* C7: no exception leaves the hook, and the hook of every POST ends in one of
\* the six outcomes: an answer of the hook leaves the store alone, and a
\* request is passed on only with its payload stored and no answer set.
C7_HookNeverRaises ==
    \A i \in Requests :
       /\ req[i].pc # "raised"
       /\ req[i].method = "POST" /\ HookOver(req[i])
          => /\ <<req[i].status, req[i].reply, req[i].stored>> \in HookOutcomes
             /\ req[i].pc = "responded" <=> ~req[i].stored

\* C7 happens: the verifier threw for one POST, and the body null, which parses
\* but has no properties, was answered 400 for another.
C7_Witness ==
    /\ \E i \in Requests :
          req[i].verdict = "throws" /\ HookOver(req[i])
    /\ \E i \in Requests :
          /\ req[i].verdict = "true"
          /\ req[i].body = "null"
          /\ req[i].reply = "Invalid JSON body"

\* The first of publicKey, botToken, applicationId that is undefined or empty.
FirstMissing ==
    IF options.publicKey \in {Undefined, ""} THEN "publicKey"
    ELSE IF options.botToken \in {Undefined, ""} THEN "botToken"
    ELSE IF options.applicationId \in {Undefined, ""} THEN "applicationId"
    ELSE "-"

\* C8: discord() throws a ConfigurationError naming the first missing field
\* when one of the three is undefined or empty, and then there is no plugin,
\* no store and no request is ever taken; with all three it succeeds.
C8_Configuration ==
    plugin # "unbuilt"
    => /\ cfgError = FirstMissing
       /\ plugin = (IF FirstMissing = "-" THEN "built" ELSE "failed")
       /\ plugin = "failed"
          => /\ store = NoStore
             /\ \A i \in Requests : req[i] = NewRequest

\* C8 happens: botToken and applicationId were both missing and botToken was
\* named.
C8_Witness ==
    /\ plugin = "failed"
    /\ options.publicKey = "set"
    /\ options.botToken = Undefined
    /\ options.applicationId = ""
    /\ cfgError = "botToken"

\* The category the claim derives from the shape of an interaction.
ShapeCategory(shape) ==
    CASE shape = "ChatInputCommand" -> "command"
      [] shape = "Button" -> "button"
      [] shape \in {"StringSelectMenu", "UserSelectMenu", "RoleSelectMenu",
                    "ChannelSelectMenu"} -> "select"
      [] shape = "ModalSubmit" -> "modal"
      [] shape = "Autocomplete" -> "autocomplete"
      [] OTHER -> "-"

\* How often handle() called callback k of category c.
TimesInvoked(c, k) ==
    Cardinality({n \in 1..Len(invoked) : invoked[n] = <<c, k>>})

\* C9: one dispatch calls every wildcard callback and every callback of the
\* category of the held interaction exactly once, and no other callback. The
\* code breaks this for the plain parsed value derive hands to the helper (the
\* first type guard throws a TypeError before any category callback is called)
\* and when a callback throws synchronously (the later ones are not called).
C9_DispatchInvokesMatching ==
    result.state # "idle" /\ interaction # NoInteraction
    => \A c \in Categories :
          \A k \in 1..Len(handlers[c]) :
             TimesInvoked(c, k) =
                IF c \in {"*", ShapeCategory(interaction.shape)} THEN 1 ELSE 0

\* C10 as first stated, for a dispatch that reached its await of Promise.all:
\* the result of handle(), resolution or rejection, is delivered only after
\* every callback it invoked has settled. The code breaks this: Promise.all
\* rejects with the first rejection while other callbacks are pending. (A
\* synchronous throw rejects handle() before the await, also with callbacks
\* pending.)
C10_ResultAfterAllSettled ==
    result.state \in {"resolved", "rejected"} /\ all.state # "none"
    => \A k \in 1..Len(promises) : promises[k].state # "pending"

\* C10 as amended: handle() resolves only after every callback it invoked has
\* returned or resolved; none of them is pending, rejected or has thrown.
C10_ResolvedAfterAllResolved ==
    result.state = "resolved"
    => /\ \A k \in 1..Len(promises) :
             promises[k].state \in {"void", "fulfilled"}
       /\ \A c \in Categories :
             \A k \in 1..Len(handlers[c]) :
                TimesInvoked(c, k) > 0 =>
                   \E n \in 1..Len(promises) :
                      promises[n].key = c /\ promises[n].idx = k

\* C10 happens: handle() resolved after two async callbacks, a wildcard and a
\* command one, both resolved.
C10_Witness ==
    /\ result.state = "resolved"
    /\ Len(promises) = 2
    /\ promises[1].key = "*" /\ promises[1].kind = "resolves"
    /\ promises[2].key = "command" /\ promises[2].kind = "resolves"
    /\ \A k \in 1..2 : promises[k].state = "fulfilled"

\* The entries of the log with this message.
Entries(message) == {n \in 1..Len(log) : log[n].message = message}

\* The promises of invoked callbacks that rejected, and the first to do so.
Rejected == {k \in 1..Len(promises) : promises[k].state = "rejected"}

FirstRejected ==
    CHOOSE k \in Rejected : \A j \in Rejected : promises[k].at <= promises[j].at

\* C11: once dispatch is over, if the promise of an invoked callback rejected
\* then dispatch rejected with the first rejection; a dispatch that invoked
\* callbacks logged exactly one of the success entry and the failure entry,
\* and the success entry only when every callback resolved. The code breaks
\* this: the loops that invoke the callbacks and run the type guards stand
\* before the try block, so an error raised there rejects dispatch with
\* neither entry, and with an error that is no callback's rejection.
C11_RejectionAndLogs ==
    result.state \in {"resolved", "rejected"} /\ invoked # <<>> =>
       /\ Rejected # {} =>
             /\ result.state = "rejected"
             /\ result.reason = CallbackError(promises[FirstRejected].key,
                                              promises[FirstRejected].idx)
       /\ Cardinality(Entries("All handlers completed successfully")
                      \cup Entries("Handler execution failed")) = 1
       /\ Entries("All handlers completed successfully") # {} =>
             \A k \in 1..Len(promises) :
                promises[k].state \in {"void", "fulfilled"}

\* Call c of the reply family is made in this step.
Made(c) == c = Len(replyCalls') /\ Len(replyCalls') = Len(replyCalls) + 1

\* The platform call of call c settles in this step.
Resumed(c) ==
    /\ c \in 1..Len(replyCalls)
    /\ replyCalls[c].state = "inflight"
    /\ replyCalls'[c].state # "inflight"

\* C12: reply, deferReply, editReply and followUp called with a discord.js
\* interaction whose isRepliable() is false (an autocomplete interaction)
\* raise InteractionNotRepliableError, make no platform call then or later,
\* and leave the response record as it was.
C12_NotRepliableRaises ==
    [][ \A c \in 1..Len(replyCalls') :
           replyCalls'[c].target = Interaction("Autocomplete") =>
              /\ replyCalls'[c].state = "rejected"
              /\ replyCalls'[c].error.name = "InteractionNotRepliableError"
              /\ ~replyCalls'[c].sent
              /\ Made(c) => response' = response ]_vars

C12_Witness ==
    /\ Len(replyCalls) = 2
    /\ replyCalls[1].state = "fulfilled"
    /\ response # NoResponse
    /\ replyCalls[2].op = "followUp"
    /\ replyCalls[2].target = Interaction("Autocomplete")
    /\ replyCalls[2].state = "rejected"

\* C13: once the platform call of a reply succeeded, the response record is
\* the type-4 descriptor with the message; and for a command interaction with
\* one command callback that replies "Pong!" whose platform call does not
\* fail, dispatch resolves and the response record is then the type-4
\* descriptor with "Pong!". The code breaks the second part for the helper
\* the plugin builds: its interaction is a plain parsed object, dispatch
\* rejects with a TypeError and the callback is never invoked.
C13_ReplyRecorded ==
    /\ (\E c \in 1..Len(replyCalls) : replyCalls[c].state = "fulfilled") =>
          response = InteractionResponse(ChannelMessageWithSource, "Pong!")
    /\ /\ interaction.shape = "ChatInputCommand"
       /\ handlers = [c \in Categories |->
                        IF c = "command" THEN <<"replies">> ELSE <<>>]
       /\ result.state \in {"resolved", "rejected"}
       /\ \A c \in 1..Len(replyCalls) :
             replyCalls[c].error.name # "DiscordInteractionError"
       => /\ result.state = "resolved"
          /\ response = InteractionResponse(ChannelMessageWithSource, "Pong!")

\* C14: no step of editReply or followUp changes the response record: not the
\* guard raising, not the platform call succeeding, not its failing.
C14_EditAndFollowUpKeepResponse ==
    [][ \A c \in 1..Len(replyCalls') :
           /\ replyCalls'[c].op \in {"editReply", "followUp"}
           /\ Made(c) \/ Resumed(c)
           => response' = response ]_vars

C14_Witness ==
    /\ Len(replyCalls) = 2
    /\ replyCalls[1].op = "deferReply" /\ replyCalls[1].state = "fulfilled"
    /\ replyCalls[2].op = "editReply" /\ replyCalls[2].state = "fulfilled"
    /\ response = InteractionResponse(DeferredChannelMessageWithSource,
                                      replyCalls[1].message)

\* C15: when the platform call of reply, deferReply, editReply or followUp
\* fails, the method raises a DiscordInteractionError (not the error caught,
\* not InteractionNotRepliableError) with the interaction's id, its type name
\* and the caught error's message, and the response record stays as it was.
C15_PlatformFailureWrapped ==
    [][ \A c \in 1..Len(replyCalls') :
           Resumed(c) /\ replyCalls'[c].caught # "-" =>
              /\ replyCalls'[c].state = "rejected"
              /\ replyCalls'[c].error.name = "DiscordInteractionError"
              /\ replyCalls'[c].error.interactionId
                    = InteractionId(replyCalls[c].target)
              /\ replyCalls'[c].error.interactionType
                    = InteractionTypeName(replyCalls[c].target)
              /\ replyCalls'[c].error.message
                    = [ text |-> FailureText(replyCalls[c].op),
                        cause |-> replyCalls'[c].caught ]
              /\ response' = response ]_vars

C15_Witness ==
    /\ Len(replyCalls) = 2
    /\ replyCalls[1].op = "reply" /\ replyCalls[1].state = "fulfilled"
    /\ replyCalls[2].op = "reply" /\ replyCalls[2].target = Interaction("Button")
    /\ replyCalls[2].caught = "Interaction has already been acknowledged"
    /\ replyCalls[2].error.name = "DiscordInteractionError"
    /\ replyCalls[2].message # replyCalls[1].message
    /\ response = InteractionResponse(ChannelMessageWithSource,
                                      replyCalls[1].message)

\* What the payload of body is to the hook, from the body alone.
BodyIs(body) ==
    LET v == JSONparse(body) IN
    IF v = SyntaxError \/ v.kind = "null" THEN "invalid"
    ELSE IF v.type = 1 THEN "ping"
    ELSE "interaction"

\* The step of the hook that ended POST request r, from its inputs alone.
FirstFailing(r) ==
    IF HeaderMissing(r) THEN "headers"
    ELSE IF r.body = "-" THEN "body"
    ELSE IF r.verdict # "true" THEN "verification"
    ELSE IF BodyIs(r.body) = "invalid" THEN "parse"
    ELSE IF BodyIs(r.body) = "ping" THEN "handshake"
    ELSE "none"

\* C16: the hook of a POST request checks the headers, reads the body,
\* verifies, parses, tests for the handshake and writes the store, in that
\* order. The first check that fails alone decides the response and no later
\* step runs: the body is read only with both headers present, the verifier
\* is called only with the body read, the body is parsed only when the
\* verifier answered true, and the store is written only when all five
\* earlier steps passed.
C16_HookOrder ==
    \A i \in Requests :
       LET r == req[i] IN
       /\ r.textCalled => ~HeaderMissing(r)
       /\ r.verifyCalled => r.textCalled /\ r.body # "-"
       /\ r.parsed => r.verifyCalled /\ r.verdict = "true"
       /\ r.stored => r.parsed /\ BodyIs(r.body) = "interaction"
       /\ r.method = "POST" /\ HookOver(r) =>
             LET f == FirstFailing(r) IN
             /\ <<r.status, r.reply>> =
                   CASE f = "headers"      -> <<401, "Missing signature headers">>
                     [] f = "body"         -> <<400, "Failed to read request body">>
                     [] f = "verification" -> <<401, "Invalid signature">>
                     [] f = "parse"        -> <<400, "Invalid JSON body">>
                     [] f = "handshake"    -> <<200, "{type:1}">>
                     [] OTHER              -> <<0, "-">>
             /\ r.textCalled = (f # "headers")
             /\ r.verifyCalled = (f \notin {"headers", "body"})
             /\ r.parsed = (f \in {"parse", "handshake", "none"})
             /\ r.stored = (f = "none")

C16_Witness ==
    \E i, j \in Requests :
       /\ req[i].reply = "Invalid signature"
       /\ req[i].body = "{type:2,id:a}"
       /\ ~req[i].parsed
       /\ req[j].stored /\ AtHandler(req[j])

\* POST request r passed the header, body, verification, parse and handshake
\* steps of the hook.
Accepted(r) == r.method = "POST" /\ HookOver(r) /\ FirstFailing(r) = "none"

\* C17: on one plugin instance the stored interaction is null until a POST
\* passes the header, body, verification, parse and handshake steps; the step
\* in which a POST passes them makes it that POST's parsed payload; no other
\* step of any request (a non-POST, an early answer, a handshake, derive, the
\* route handler returning) changes it.
C17_StoreIsLastAccepted ==
    [][ LET now == {i \in Requests : Accepted(req'[i]) /\ ~Accepted(req[i])}
        IN /\ \A i \in now : store' = JSONparse(req'[i].body)
           /\ now = {} /\ plugin = "built" => store' = store
           /\ plugin' = "built" /\ (\A i \in Requests : ~Accepted(req'[i]))
                 => store' = Null ]_vars

C17_Witness ==
    /\ req[1].stored /\ req[2].stored
    /\ req[1].body # req[2].body
    /\ req[2].pc = "done"
    /\ store = JSONparse(req[1].body)

\* Call c is a reply or a deferReply: an initial acknowledgment.
Acknowledges(c) == c.op \in {"reply", "deferReply"}

\* The descriptor an acknowledgment records.
Descriptor(c) ==
    [ type |-> IF c.op = "reply" THEN 4 ELSE 5, data |-> c.message ]

\* C18: over every interleaving of reply, deferReply, editReply and followUp
\* calls on one helper, the response record is null until the platform call
\* of a reply or deferReply succeeds; the step in which one succeeds makes it
\* that call's descriptor, whatever was recorded and in whatever order the
\* calls were made; no other step changes it. A reply or deferReply with a
\* repliable interaction always goes to the platform, also when an
\* acknowledgment is already recorded or in flight.
C18_ResponseIsLastCompleted ==
    [][ LET now == {c \in 1..Len(replyCalls) :
                      /\ Resumed(c) /\ Acknowledges(replyCalls[c])
                      /\ replyCalls'[c].state = "fulfilled"}
        IN /\ \A c \in now : response' = Descriptor(replyCalls[c])
           /\ now = {} => response' = response
           /\ (\A c \in 1..Len(replyCalls') :
                  ~(/\ Acknowledges(replyCalls'[c])
                    /\ replyCalls'[c].state = "fulfilled"))
                 => response' = NoResponse
           /\ \A c \in 1..Len(replyCalls') :
                 /\ Made(c) /\ Acknowledges(replyCalls'[c])
                 /\ replyCalls'[c].target
                      \in {Interaction("ChatInputCommand"), Interaction("Button")}
                 => replyCalls'[c].state = "inflight" /\ replyCalls'[c].sent
      ]_vars

C18_Witness ==
    /\ Len(replyCalls) = 2
    /\ replyCalls[1].op = "reply" /\ replyCalls[1].state = "fulfilled"
    /\ replyCalls[2].op = "deferReply" /\ replyCalls[2].state = "fulfilled"
    /\ response = InteractionResponse(ChannelMessageWithSource,
                                      replyCalls[1].message)

\* The callbacks dispatch reaches, in the order it calls them: the wildcard
\* ones, then those of the category of the held discord.js interaction.
InvocationOrder ==
    LET key == ShapeCategory(interaction.shape) IN
    [k \in 1..Len(handlers["*"]) |-> <<"*", k>>]
    \o (IF interaction.class = "Interaction" /\ key # "-"
        THEN [k \in 1..Len(handlers[key]) |-> <<key, k>>]
        ELSE <<>>)

\* The callbacks in that order that are plain functions that throw.
Throwers ==
    {p \in 1..Len(InvocationOrder) :
        handlers[InvocationOrder[p][1]][InvocationOrder[p][2]] = "throws"}

\* C19: when a callback throws synchronously while dispatch is calling the
\* callbacks, dispatch is rejected with that error at once: the callbacks
\* after it in the order of invocation are never called, Promise.all is never
\* called on what the earlier callbacks returned, and neither the success
\* entry nor the failure entry is ever logged.
C19_SynchronousThrowAborts ==
    /\ result.state # "idle"
    /\ interaction # NoInteraction
    /\ Throwers # {}
    => LET p == CHOOSE p \in Throwers : \A q \in Throwers : p <= q IN
       /\ result.state = "rejected"
       /\ result.reason = CallbackError(InvocationOrder[p][1],
                                        InvocationOrder[p][2])
       /\ invoked = SubSeq(InvocationOrder, 1, p)
       /\ all.state = "none"
       /\ log = <<>>

C19_Witness ==
    /\ interaction = Interaction("Button")
    /\ handlers["*"] = <<"throws">>
    /\ handlers["button"] = <<"resolves">>
    /\ result.state = "rejected"
    /\ invoked = << <<"*", 1>> >>

====
